---- MODULE Spec2Model ----
(***************************************************************************)
(* A model of the biology quiz study program (biology_quiz.py) and of the  *)
(* question-bank merge script (combi.py).                                  *)
(*                                                                         *)
(* Weights are floats in the program; every weight the program computes    *)
(* from a multiple of 0.1 is again a multiple of 0.1, so a weight is       *)
(* modelled as an integer number of tenths (1.0 is 10, 0.3 is 3).  The     *)
(* random draw r of select_question is modelled on a grid of 1/Grid of a   *)
(* tenth, so that draws strictly between two cumulative weights exist.     *)
(*                                                                         *)
(* A JSON object (a Python dict, which keeps insertion order) is a         *)
(* sequence of records [name, questions] with pairwise distinct names.  A  *)
(* question is a record; the stored record of a question may lack the      *)
(* weight field, which is modelled by the record not having that field.    *)
(***************************************************************************)
EXTENDS Integers, Sequences, FiniteSets, TLC

VARIABLES
    store,              \* the quiz file: [kind, data]; kind is "ok" (a JSON
                        \* mapping, data), "missing", "corrupt" (not JSON),
                        \* "undecodable" (bytes that are not text in the
                        \* file's encoding) or "not a mapping" (other JSON)
    quiz_data,          \* self.quiz_data
    disabled_chapters,  \* self.disabled_chapters: a set of chapter names
    user_stats,         \* self.user_stats: text -> [correct, incorrect]
    pc,                 \* where the control flow of run() waits for input
    chapter,            \* study_chapter: its argument (0 outside the loop)
    all_questions,      \* test_all_chapters: the shuffled questions not yet asked
    question_count,     \* local of study_chapter / test_all_chapters
    correct_count,      \* local of study_chapter / test_all_chapters
    history,            \* per question position, the evaluations made on it
    loaded,             \* what load_quiz_data found in the store
    returned,           \* how the last study/test call returned to the menu
    selected,           \* the last select_question call and what it returned
    merge               \* the state of the merge script

vars == <<store, quiz_data, disabled_chapters, user_stats, pc, chapter,
          all_questions, question_count, correct_count, history,
          loaded, returned, selected, merge>>

quizVars == <<store, quiz_data, disabled_chapters, user_stats, pc, chapter,
              all_questions, question_count, correct_count, history,
              loaded, returned>>

(***************************************************************************)
(* Bounds of the model.                                                    *)
(***************************************************************************)
\* evaluations (answered questions) in one run of the program
MaxEvals == 6
\* weights (in tenths) a stored record may carry are 0 .. MaxStoredWeight
MaxStoredWeight == 2
\* characters of the alphabet chapter names of the merge script are made of
MaxChar == 2

(***************************************************************************)
(* Program constants, in tenths.                                           *)
(***************************************************************************)
DefaultWeight == 10
FloorWeight == 1
CorrectDecay == 3
IncorrectGrowth == 5
PromptEvery == 5
Grid == 2

Max(a, b) == IF a >= b THEN a ELSE b

RECURSIVE SumSeq(_)
SumSeq(s) == IF s = <<>> THEN 0 ELSE s[1] + SumSeq(Tail(s))

\* all orderings of the elements of a finite set
RECURSIVE Perms(_)
Perms(S) ==
    IF S = {} THEN {<<>>}
    ELSE UNION {{<<x>> \o p : p \in Perms(S \ {x})} : x \in S}

(***************************************************************************)
(* Questions and banks.                                                    *)
(***************************************************************************)
HasWeight(q) == "weight" \in DOMAIN q

Question(text, options, correct) ==
    [question |-> text, options |-> options, correct_option |-> correct]

WithWeight(q, w) ==
    [question |-> q.question, options |-> q.options,
     correct_option |-> q.correct_option, weight |-> w]

ChapterNames(data) == {data[c].name : c \in DOMAIN data}

\* the position of the chapter called name in the dict, 0 when it has none
ChapterIndex(data, name) ==
    IF name \in ChapterNames(data)
    THEN CHOOSE c \in DOMAIN data : data[c].name = name
    ELSE 0

\* the questions of a bank, each named by <<chapter position, list position>>
Positions(data) ==
    UNION {{<<c, i>> : i \in DOMAIN data[c].questions} : c \in DOMAIN data}

QuestionAt(data, p) == data[p[1]].questions[p[2]]


(***************************************************************************)
(* The stores the program is started on.                                   *)
(***************************************************************************)
Options == <<"a", "b">>

Q1 == Question("Q1", Options, "a")
Q2 == Question("Q2", Options, "b")
\* a question of another chapter with the text of Q1
Q3 == Question("Q1", Options, "b")

StoredWeights == (0..MaxStoredWeight) \cup {DefaultWeight}

\* the stored records of question q: without a weight field, or with one
Variants(q) == {q} \cup {WithWeight(q, w) : w \in StoredWeights}

Chapter(name, questions) == [name |-> name, questions |-> questions]

\* a chapter with more questions than test_all_chapters asks between two
\* prompts; each question has a single option
BigTexts == <<"B1", "B2", "B3", "B4", "B5", "B6">>

BigChapter ==
    [i \in DOMAIN BigTexts |->
        WithWeight(Question(BigTexts[i], <<"a">>, "a"), DefaultWeight)]

StoredBanks ==
    {<<>>, <<Chapter("Ch1", <<>>)>>, <<Chapter("Big", BigChapter)>>}
    \cup {<<Chapter("Ch1", <<v>>)>> : v \in Variants(Q1)}
    \cup {<<Chapter("Ch1", <<WithWeight(Q1, MaxStoredWeight)>>),
            Chapter("Ch2", <<Q3>>)>>}
    \cup {<<Chapter("Ch1", <<WithWeight(Q1, 0), WithWeight(Q2, 0)>>),
            Chapter("Ch2", <<Q3>>)>>}

Stores ==
    {[kind |-> k, data |-> <<>>] :
        k \in {"missing", "corrupt", "undecodable", "not a mapping"}}
    \cup {[kind |-> "ok", data |-> b] : b \in StoredBanks}

(***************************************************************************)
(* biology_quiz.py: the operations of BiologyQuiz.                         *)
(***************************************************************************)
\* json.dump of the whole mapping over the file
save_quiz_data(data) == [kind |-> "ok", data |-> data]

\* the dataset create_sample_data installs
SampleData ==
    <<Chapter("Sample Chapter 1",
        <<WithWeight(Question("What is the powerhouse of the cell?",
            <<"Nucleus", "Mitochondria", "Golgi apparatus",
              "Endoplasmic reticulum">>, "Mitochondria"), DefaultWeight)>>),
      Chapter("Sample Chapter 2",
        <<WithWeight(Question(
            "What is the process by which plants make their food?",
            <<"Respiration", "Photosynthesis", "Transpiration", "Digestion">>,
            "Photosynthesis"), DefaultWeight)>>)>>

\* create_sample_data: the bank and the store it leaves
create_sample_data ==
    [data |-> SampleData, store |-> save_quiz_data(SampleData), raised |-> FALSE]

\* a mutant of default_weight: the stored weight is overwritten
default_weight_overwrite(q) == WithWeight(q, DefaultWeight)

\* lines 22-23: add the weight to a question that has none
default_weight(q) == IF HasWeight(q) THEN q ELSE WithWeight(q, DefaultWeight)

\* lines 20-24: the mapping read from the file, every question with a weight
loaded_data(data) ==
    [c \in DOMAIN data |->
        Chapter(data[c].name,
                [i \in DOMAIN data[c].questions |->
                    default_weight(data[c].questions[i])])]

\* load_quiz_data: the bank and the store it leaves, for a store st, and
\* whether an exception leaves the method.  open() raises FileNotFoundError
\* for a missing file and json.load raises JSONDecodeError for text that is
\* not JSON: both are handled.  For bytes that are not text json.load
\* raises UnicodeDecodeError (line 18), and for JSON that is not a mapping
\* data.items() raises AttributeError (line 20): no handler matches, and
\* quiz_data stays as __init__ left it.
load_quiz_data(st) ==
    IF st.kind = "ok"
    THEN [data |-> loaded_data(st.data), store |-> st, raised |-> FALSE]
    ELSE IF st.kind \in {"missing", "corrupt"} THEN create_sample_data
    ELSE [data |-> <<>>, store |-> st, raised |-> TRUE]

Weights(questions) == [i \in DOMAIN questions |-> questions[i].weight]

\* a mutant of UniformDraws: the draw is from (0, total] instead of [0, total)
UniformDrawsOpenAtZero(total) ==
    IF total > 0 THEN 1..(Grid * total) ELSE (Grid * total)..(0 - 1)

\* random.uniform(0, total): 0 + total * random(), random() in [0, 1)
UniformDraws(total) ==
    IF total > 0 THEN 0..(Grid * total - 1) ELSE (Grid * total + 1)..0

\* a mutant of walk: the comparison is strict (r < cumulative_weight)
RECURSIVE walk_strict(_, _, _, _)
walk_strict(weights, r, i, cumulative_weight) ==
    IF i > Len(weights) THEN Len(weights)
    ELSE IF r < Grid * (cumulative_weight + weights[i]) THEN i
    ELSE walk_strict(weights, r, i + 1, cumulative_weight + weights[i])

\* a mutant of walk: no fallback, None when the walk finds no question
RECURSIVE walk_no_fallback(_, _, _, _)
walk_no_fallback(weights, r, i, cumulative_weight) ==
    IF i > Len(weights) THEN 0
    ELSE IF r <= Grid * (cumulative_weight + weights[i]) THEN i
    ELSE walk_no_fallback(weights, r, i + 1, cumulative_weight + weights[i])

\* lines 100-108: walk the list accumulating weights; r is on the grid
RECURSIVE walk(_, _, _, _)
walk(weights, r, i, cumulative_weight) ==
    IF i > Len(weights) THEN Len(weights)
    ELSE IF r <= Grid * (cumulative_weight + weights[i]) THEN i
    ELSE walk(weights, r, i + 1, cumulative_weight + weights[i])

\* select_question: the list position of the question returned, 0 for None;
\* r is the draw of random.uniform, k the draw of random.choice
select_question(data, disabled, name, r, k) ==
    LET questions == data[ChapterIndex(data, name)].questions
        total_weight == SumSeq(Weights(questions))
    IN  IF name \in disabled THEN 0
        ELSE IF questions = <<>> THEN 0
        ELSE IF total_weight = 0 THEN k
        ELSE walk(Weights(questions), r, 1, 0)

\* the draws select_question makes on a chapter: random.uniform is called
\* only when the total weight is not 0, random.choice only when it is 0
\* (the draw that is not made is 0)
DrawsR(data, name) ==
    LET total_weight == SumSeq(Weights(data[ChapterIndex(data, name)].questions))
    IN  IF total_weight = 0 THEN {0} ELSE UniformDraws(total_weight)

DrawsK(data, name) ==
    LET questions == data[ChapterIndex(data, name)].questions
    IN  IF questions # <<>> /\ SumSeq(Weights(questions)) = 0
        THEN 1..Len(questions)
        ELSE {0}

\* line 121
is_correct(q, choice) == q.options[choice] = q.correct_option

\* a mutant of new_weight: the decay is not clamped at the floor
new_weight_unclamped(w, correct) ==
    IF correct THEN w - CorrectDecay ELSE w + IncorrectGrowth

\* a mutant of new_weight: the decay is clamped at 0
new_weight_floor_zero(w, correct) ==
    IF correct THEN Max(0, w - CorrectDecay) ELSE w + IncorrectGrowth

\* lines 126 and 131
new_weight(w, correct) ==
    IF correct THEN Max(FloorWeight, w - CorrectDecay) ELSE w + IncorrectGrowth

\* self.user_stats[text], a defaultdict entry
stats_entry(stats, text) ==
    IF text \in DOMAIN stats THEN stats[text]
    ELSE [correct |-> 0, incorrect |-> 0]

\* a mutant of new_stats: every answer is counted as correct
new_stats_always_correct(stats, text, correct) ==
    [t \in DOMAIN stats \cup {text} |->
        IF t # text THEN stats[t]
        ELSE [stats_entry(stats, text) EXCEPT !.correct = @ + 1]]

\* lines 127 and 132
new_stats(stats, text, correct) ==
    [t \in DOMAIN stats \cup {text} |->
        IF t # text THEN stats[t]
        ELSE IF correct
             THEN [stats_entry(stats, text) EXCEPT !.correct = @ + 1]
             ELSE [stats_entry(stats, text) EXCEPT !.incorrect = @ + 1]]

\* the bank after the question at position p got weight w
set_weight(data, p, w) ==
    [data EXCEPT ![p[1]].questions[p[2]].weight = w]

\* ask_question on the question at position p, the user choosing option
\* number choice (the prompt is repeated until the choice is valid)
ask_question(data, stats, p, choice) ==
    LET q == QuestionAt(data, p)
        correct == is_correct(q, choice)
    IN  [correct |-> correct,
         data |-> set_weight(data, p, new_weight(q.weight, correct)),
         stats |-> new_stats(stats, q.question, correct)]

Choices(q) == 1..Len(q.options)

\* the option numbers of the questions of a bank
AllChoices(data) == UNION {Choices(QuestionAt(data, p)) : p \in Positions(data)}

\* toggle_chapter: the disabled set after toggling chapter number idx
toggle_chapter(data, disabled, idx) ==
    IF 1 <= idx /\ idx <= Len(data)
    THEN IF data[idx].name \in disabled
         THEN disabled \ {data[idx].name}
         ELSE disabled \cup {data[idx].name}
    ELSE disabled

(***************************************************************************)
(* The program as a state machine: one action per input run() waits for.   *)
(* list_chapters and show_statistics only print and are left out.          *)
(***************************************************************************)
NoSelect == [name |-> "", r |-> 0, k |-> 0, disabled |-> {}, result |-> 0]

NoEvals == [right |-> 0, wrong |-> 0]

Evals(h, p) == IF p \in DOMAIN h THEN h[p] ELSE NoEvals

RECURSIVE EvalsOver(_, _)
EvalsOver(h, S) ==
    IF S = {} THEN 0
    ELSE LET p == CHOOSE x \in S : TRUE
         IN  h[p].right + h[p].wrong + EvalsOver(h, S \ {p})

TotalEvals == EvalsOver(history, DOMAIN history)

EvalsLeft == MaxEvals - TotalEvals

\* the history after one more evaluation of the question at p
Logged(h, p, correct) ==
    [x \in DOMAIN h \cup {p} |->
        IF x # p THEN h[x]
        ELSE IF correct THEN [Evals(h, p) EXCEPT !.right = @ + 1]
             ELSE [Evals(h, p) EXCEPT !.wrong = @ + 1]]

Init ==
    /\ store \in Stores
    /\ quiz_data = <<>>
    /\ disabled_chapters = {}
    /\ user_stats = <<>>
    /\ pc = "start"
    /\ chapter = ""
    /\ all_questions = <<>>
    /\ question_count = 0
    /\ correct_count = 0
    /\ history = <<>>
    /\ loaded = store
    /\ returned = "none"
    /\ selected = NoSelect
    /\ merge = <<>>

\* __init__: load_quiz_data, then run() shows the main menu; an exception
\* that leaves load_quiz_data ends the process
Construct ==
    /\ pc = "start"
    /\ quiz_data' = load_quiz_data(store).data
    /\ store' = load_quiz_data(store).store
    /\ pc' = IF load_quiz_data(store).raised THEN "failed" ELSE "menu"
    /\ UNCHANGED <<disabled_chapters, user_stats, chapter, all_questions,
                   question_count, correct_count, history, loaded,
                   returned, selected, merge>>

\* menu choice 4 with chapter number idx
Toggle(idx) ==
    /\ pc = "menu"
    /\ disabled_chapters' = toggle_chapter(quiz_data, disabled_chapters, idx)
    /\ returned' = "none"
    /\ UNCHANGED <<store, quiz_data, user_stats, pc, chapter, all_questions,
                   question_count, correct_count, history, loaded, selected,
                   merge>>

\* menu choice 2 with chapter number idx: study_chapter is entered for a
\* chapter that exists and is enabled
StartStudy(idx) ==
    /\ pc = "menu"
    /\ EvalsLeft > 0
    /\ IF 1 <= idx /\ idx <= Len(quiz_data)
          /\ quiz_data[idx].name \notin disabled_chapters
       THEN /\ pc' = "study"
            /\ chapter' = quiz_data[idx].name
            /\ question_count' = 0
            /\ correct_count' = 0
            /\ returned' = "none"
       ELSE /\ returned' = "none"
            /\ UNCHANGED <<pc, chapter, question_count, correct_count>>
    /\ UNCHANGED <<store, quiz_data, disabled_chapters, user_stats,
                   all_questions, history, loaded, selected, merge>>

\* a mutant of Return: back to the menu without saving
ReturnUnsaved(data, how) ==
    /\ store' = store
    /\ pc' = "menu"
    /\ returned' = how
    /\ chapter' = ""
    /\ all_questions' = <<>>
    /\ question_count' = 0
    /\ correct_count' = 0

\* the end of study_chapter and of test_all_chapters: save, back to the menu
Return(data, how) ==
    /\ store' = save_quiz_data(data)
    /\ pc' = "menu"
    /\ returned' = how
    /\ chapter' = ""
    /\ all_questions' = <<>>
    /\ question_count' = 0
    /\ correct_count' = 0

\* what select_question can return for a chapter, over all its draws
Selectable(data, disabled, name) ==
    {select_question(data, disabled, name, r, k) :
        r \in DrawsR(data, name), k \in DrawsK(data, name)}

\* one pass of the loop of study_chapter: select_question returned list
\* position i (0 for None), the user chose option number choice, and
\* answered "Continue with this chapter?"
StudyIteration(i, choice, continue) ==
    /\ pc = "study"
    /\ LET p == <<ChapterIndex(quiz_data, chapter), i>>
       IN  IF i = 0
           THEN /\ Return(quiz_data, "no question")
                /\ UNCHANGED <<quiz_data, user_stats, history>>
           ELSE LET a == ask_question(quiz_data, user_stats, p, choice)
                IN  /\ choice \in Choices(QuestionAt(quiz_data, p))
                    /\ quiz_data' = a.data
                    /\ user_stats' = a.stats
                    /\ history' = Logged(history, p, a.correct)
                    /\ IF continue
                       THEN /\ EvalsLeft > 1
                            /\ question_count' = question_count + 1
                            /\ correct_count' =
                                 correct_count + (IF a.correct THEN 1 ELSE 0)
                            /\ UNCHANGED <<store, pc, chapter, all_questions,
                                           returned>>
                       ELSE Return(a.data, "declined")
    /\ UNCHANGED <<disabled_chapters, loaded, selected, merge>>

\* the chapters test_all_chapters draws from, in dict order
enabled_chapters(data, disabled) ==
    {c \in DOMAIN data : data[c].name \notin disabled}

\* menu choice 3: test_all_chapters up to its first question; order is the
\* outcome of random.shuffle
StartTest(order) ==
    /\ pc = "menu"
    /\ IF enabled_chapters(quiz_data, disabled_chapters) = {}
       THEN /\ returned' = "all disabled"
            /\ UNCHANGED <<store, pc, chapter, all_questions, question_count,
                           correct_count>>
       ELSE IF order = <<>>
            THEN Return(quiz_data, "exhausted")
            ELSE /\ pc' = "test"
                 /\ all_questions' = order
                 /\ question_count' = 0
                 /\ correct_count' = 0
                 /\ returned' = "none"
                 /\ UNCHANGED <<store, chapter>>
    /\ UNCHANGED <<quiz_data, disabled_chapters, user_stats, history, loaded,
                   selected, merge>>

\* lines 179-181: the questions of the enabled chapters
enabled_questions(data, disabled) ==
    {p \in Positions(data) : p[1] \in enabled_chapters(data, disabled)}

\* the orders random.shuffle can leave them in
Shuffles(data, disabled) == Perms(enabled_questions(data, disabled))

\* one pass of the loop of test_all_chapters: ask the next question, and,
\* after every PromptEvery-th question, the answer to "Continue testing?"
TestIteration(choice, continue) ==
    /\ pc = "test"
    /\ LET p == Head(all_questions)
           a == ask_question(quiz_data, user_stats, p, choice)
           prompt == (question_count + 1) % PromptEvery = 0
       IN  /\ choice \in Choices(QuestionAt(quiz_data, p))
           /\ prompt \/ continue
           /\ quiz_data' = a.data
           /\ user_stats' = a.stats
           /\ history' = Logged(history, p, a.correct)
           /\ IF prompt /\ ~continue
              THEN Return(a.data, "declined")
              ELSE IF Tail(all_questions) = <<>>
                   THEN Return(a.data, "exhausted")
                   ELSE /\ all_questions' = Tail(all_questions)
                        /\ question_count' = question_count + 1
                        /\ correct_count' =
                             correct_count + (IF a.correct THEN 1 ELSE 0)
                        /\ UNCHANGED <<store, pc, chapter, returned>>
    /\ UNCHANGED <<disabled_chapters, loaded, selected, merge>>

\* menu choice 6
Exit ==
    /\ pc = "menu"
    /\ pc' = "exit"
    /\ UNCHANGED <<store, quiz_data, disabled_chapters, user_stats, chapter,
                   all_questions, question_count, correct_count,
                   history, loaded, returned, selected, merge>>

ToggleChapter == \E idx \in 0..(Len(quiz_data) + 1) : Toggle(idx)

StudyChapter == \E idx \in 0..(Len(quiz_data) + 1) : StartStudy(idx)

StudyStep ==
    /\ pc = "study"
    /\ \E i \in Selectable(quiz_data, disabled_chapters, chapter),
          choice \in AllChoices(quiz_data), continue \in BOOLEAN :
           StudyIteration(i, choice, continue)

TestAllChapters ==
    /\ pc = "menu"
    /\ Cardinality(enabled_questions(quiz_data, disabled_chapters)) <= EvalsLeft
    /\ \E order \in Shuffles(quiz_data, disabled_chapters) : StartTest(order)

TestStep ==
    /\ pc = "test"
    /\ \E choice \in AllChoices(quiz_data), continue \in BOOLEAN :
           TestIteration(choice, continue)

Next ==
    \/ Construct
    \/ ToggleChapter
    \/ StudyChapter
    \/ StudyStep
    \/ TestAllChapters
    \/ TestStep
    \/ Exit

Spec == Init /\ [][Next]_vars

(***************************************************************************)
(* select_question on its own: the banks it is called on carry any weights *)
(* a stored record may hold, negative ones included, and any chapters may  *)
(* be disabled.                                                            *)
(***************************************************************************)
SelectTexts == <<"Q1", "Q2", "Q3">>

SelectWeights == (0 - 1)..MaxStoredWeight

\* the lists of up to Len(SelectTexts) questions with weights of SelectWeights
SelectLists ==
    UNION {[1..n -> SelectWeights] : n \in 0..Len(SelectTexts)}

SelectChapter(ws) ==
    [i \in DOMAIN ws |-> WithWeight(Question(SelectTexts[i], Options, "a"), ws[i])]

SelectBanks ==
    {<<Chapter("Ch1", SelectChapter(ws)), Chapter("Ch2", <<WithWeight(Q3, DefaultWeight)>>)>> :
        ws \in SelectLists}

InitSelect ==
    /\ quiz_data \in SelectBanks
    /\ store = save_quiz_data(quiz_data)
    /\ disabled_chapters = {}
    /\ user_stats = <<>>
    /\ pc = "menu"
    /\ chapter = ""
    /\ all_questions = <<>>
    /\ question_count = 0
    /\ correct_count = 0
    /\ history = <<>>
    /\ loaded = store
    /\ returned = "none"
    /\ selected = NoSelect
    /\ merge = <<>>

\* a call select_question(name) with draws r and k
Select(name, r, k) ==
    /\ selected' = [name |-> name, r |-> r, k |-> k,
                    disabled |-> disabled_chapters,
                    result |-> select_question(quiz_data, disabled_chapters,
                                               name, r, k)]
    /\ UNCHANGED <<quizVars, merge>>

SelectQuestion ==
    \E name \in ChapterNames(quiz_data) :
        \E r \in DrawsR(quiz_data, name), k \in DrawsK(quiz_data, name) :
            Select(name, r, k)

NextSelect == ToggleChapter \/ SelectQuestion

SpecSelect == InitSelect /\ [][NextSelect]_vars

(***************************************************************************)
(* combi.py: the merge script.  A chapter name is a string, modelled as a  *)
(* sequence of characters 1..MaxChar, compared as Python compares strings. *)
(***************************************************************************)
\* str.__lt__: lexicographic, a proper prefix comes first
RECURSIVE LexLess(_, _)
LexLess(a, b) ==
    IF a = <<>> THEN b # <<>>
    ELSE IF b = <<>> THEN FALSE
    ELSE IF Head(a) # Head(b) THEN Head(a) < Head(b)
    ELSE LexLess(Tail(a), Tail(b))

HasKey(d, key) == \E i \in DOMAIN d : d[i].name = key

KeyIndex(d, key) == CHOOSE i \in DOMAIN d : d[i].name = key

\* lines 18-22: the merged dict after the items i.. of dict2 are taken in
RECURSIVE merge_items(_, _, _)
merge_items(merged_dict, dict2, i) ==
    IF i > Len(dict2) THEN merged_dict
    ELSE LET key == dict2[i].name
             value == dict2[i].questions
         IN  IF HasKey(merged_dict, key)
             THEN merge_items(
                    [merged_dict EXCEPT ![KeyIndex(merged_dict, key)].questions
                                           = @ \o value],
                    dict2, i + 1)
             ELSE merge_items(Append(merged_dict, Chapter(key, value)),
                              dict2, i + 1)

\* merge_json
merge_json(dict1, dict2) == merge_items(dict1, dict2, 1)

\* a mutant of sorted_items: the items are written in insertion order
unsorted_items(d) == d

\* insertion of an item into a list of items sorted by name
RECURSIVE insert_sorted(_, _)
insert_sorted(items, item) ==
    IF items = <<>> THEN <<item>>
    ELSE IF LexLess(item.name, Head(items).name)
         THEN <<item>> \o items
         ELSE <<Head(items)>> \o insert_sorted(Tail(items), item)

\* line 34: dict(sorted(combined_data.items()))
RECURSIVE sorted_items(_)
sorted_items(d) ==
    IF d = <<>> THEN <<>>
    ELSE insert_sorted(sorted_items(SubSeq(d, 1, Len(d) - 1)), d[Len(d)])

\* merged_dict is a shallow copy: extend() also lengthens the lists of dict1
after_merge(dict1, dict2) ==
    [i \in DOMAIN dict1 |-> merge_json(dict1, dict2)[i]]

\* the chapter names of the input files
MergeNames ==
    {<<c>> : c \in 1..MaxChar} \cup {<<c, d>> : c \in 1..MaxChar, d \in 1..MaxChar}

\* the dicts with at most two chapters; chapter i of file f holds the
\* questions lists[i]
MergeDicts(lists) ==
    {<<>>} \cup {<<Chapter(n, lists[1])>> : n \in MergeNames}
    \cup UNION {{<<Chapter(n, lists[1]), Chapter(m, lists[2])>> :
                    m \in MergeNames \ {n}} : n \in MergeNames}

MergeFiles1 == MergeDicts(<<<<"a1", "a2">>, <<"a3">>>>)

MergeFiles2 == MergeDicts(<<<<"b1">>, <<"b2", "b3">>>>)

InitMerge ==
    /\ merge \in {[pc |-> "start", file1 |-> f1, file2 |-> f2,
                    quiz_data_1 |-> <<>>, quiz_data_2 |-> <<>>,
                    output |-> <<>>] : f1 \in MergeFiles1, f2 \in MergeFiles2}
    /\ store = [kind |-> "missing", data |-> <<>>]
    /\ quiz_data = <<>>
    /\ disabled_chapters = {}
    /\ user_stats = <<>>
    /\ pc = "none"
    /\ chapter = ""
    /\ all_questions = <<>>
    /\ question_count = 0
    /\ correct_count = 0
    /\ history = <<>>
    /\ loaded = store
    /\ returned = "none"
    /\ selected = NoSelect

\* lines 27-28: load both files
MergeLoad ==
    /\ merge.pc = "start"
    /\ merge' = [merge EXCEPT !.pc = "loaded", !.quiz_data_1 = merge.file1,
                              !.quiz_data_2 = merge.file2]
    /\ UNCHANGED <<quizVars, selected>>

\* lines 31-38: merge, sort and write the output file
MergeWrite ==
    /\ merge.pc = "loaded"
    /\ merge' = [merge EXCEPT
                   !.pc = "done",
                   !.quiz_data_1 = after_merge(merge.quiz_data_1, merge.quiz_data_2),
                   !.output = sorted_items(merge_json(merge.quiz_data_1,
                                                      merge.quiz_data_2))]
    /\ UNCHANGED <<quizVars, selected>>

NextMerge == MergeLoad \/ MergeWrite

SpecMerge == InitMerge /\ [][NextMerge]_vars

(***************************************************************************)
(* Properties of the quiz program (specification Spec).                    *)
(***************************************************************************)
Weight(data, p) == QuestionAt(data, p).weight

Answered(p) == p \in DOMAIN history

\* C1: for every question of the bank and every option the user can choose,
\* ask_question returns true exactly when the chosen option equals
\* correct_option; it sets the weight of the question to max(0.1, w - 0.3)
\* when it returns true and to w + 0.5 when it returns false (1.0 -> 0.7,
\* 0.2 -> 0.1, 1.0 -> 1.5), and leaves the weight of every other question
\* as it was.
C1_AskQuestionContract ==
    \A p \in Positions(quiz_data) :
        \A choice \in Choices(QuestionAt(quiz_data, p)) :
            LET q == QuestionAt(quiz_data, p)
                w == q.weight
                a == ask_question(quiz_data, user_stats, p, choice)
                chosen == q.options[choice]
            IN  /\ a.correct <=> (chosen = q.correct_option)
                /\ a.correct =>
                      Weight(a.data, p) = (IF w - 3 >= 1 THEN w - 3 ELSE 1)
                /\ ~a.correct => Weight(a.data, p) = w + 5
                /\ (w = 10 /\ a.correct) => Weight(a.data, p) = 7
                /\ (w = 2 /\ a.correct) => Weight(a.data, p) = 1
                /\ (w = 10 /\ ~a.correct) => Weight(a.data, p) = 15
                /\ Positions(a.data) = Positions(quiz_data)
                /\ \A o \in Positions(quiz_data) \ {p} :
                      QuestionAt(a.data, o) = QuestionAt(quiz_data, o)

\* a question stored with weight 0.2 was answered correctly once, which left
\* it at the floor 0.1, and another question was answered incorrectly
C1_Witness ==
    /\ pc = "menu"
    /\ loaded.kind = "ok"
    /\ \E p \in DOMAIN history :
          /\ HasWeight(QuestionAt(loaded.data, p))
          /\ Weight(loaded.data, p) = 2
          /\ history[p] = [right |-> 1, wrong |-> 0]
          /\ Weight(quiz_data, p) = 1
    /\ \E p \in DOMAIN history : history[p].wrong > 0

\* C2: started on a bank with no negative weight, in every reachable state
\* every question has a weight >= 0, and every question that was answered
\* at least once has a weight >= 0.1.
C2_WeightsNonNegative ==
    \A p \in Positions(quiz_data) :
        /\ Weight(quiz_data, p) >= 0
        /\ Answered(p) => Weight(quiz_data, p) >= 1

\* an answered question sits at the floor while a question that was never
\* answered has weight 0
C2_Witness ==
    /\ \E p \in Positions(quiz_data) :
          Answered(p) /\ history[p].right > 0 /\ Weight(quiz_data, p) = 1
    /\ \E p \in Positions(quiz_data) :
          ~Answered(p) /\ Weight(quiz_data, p) = 0

\* the evaluations the history holds for the questions of S with a text
RECURSIVE RightOver(_, _, _)
RightOver(S, text, data) ==
    IF S = {} THEN 0
    ELSE LET p == CHOOSE x \in S : TRUE
         IN  (IF QuestionAt(data, p).question = text THEN history[p].right ELSE 0)
             + RightOver(S \ {p}, text, data)

RECURSIVE WrongOver(_, _, _)
WrongOver(S, text, data) ==
    IF S = {} THEN 0
    ELSE LET p == CHOOSE x \in S : TRUE
         IN  (IF QuestionAt(data, p).question = text THEN history[p].wrong ELSE 0)
             + WrongOver(S \ {p}, text, data)

Texts(data) == {QuestionAt(data, p).question : p \in Positions(data)}

SavedReturns == {"declined", "exhausted", "no question"}

C6_SeedOnFailure ==
    pc # "start" =>
        /\ pc # "failed"
        /\ (loaded.kind # "ok" /\ history = <<>>) =>
              /\ quiz_data = SampleData
              /\ store = save_quiz_data(SampleData)
              /\ \A c \in DOMAIN quiz_data :
                    /\ quiz_data[c].questions # <<>>
                    /\ \A i \in DOMAIN quiz_data[c].questions :
                          quiz_data[c].questions[i].weight = 10
        /\ quiz_data # <<>>

\* C7: after a successful load every question of the bank has a weight:
\* 1.0 when its stored record had none, the stored value when it had one
\* (until the question is answered); chapters, question order and the other
\* fields are as stored, and what a save writes holds a weight for every
\* question.
C7_LoadDefaultsWeight ==
    (pc # "start" /\ loaded.kind = "ok") =>
        /\ Len(quiz_data) = Len(loaded.data)
        /\ \A c \in DOMAIN quiz_data :
              /\ quiz_data[c].name = loaded.data[c].name
              /\ Len(quiz_data[c].questions) = Len(loaded.data[c].questions)
        /\ \A p \in Positions(quiz_data) :
              LET q == QuestionAt(quiz_data, p)
                  stored == QuestionAt(loaded.data, p)
              IN  /\ HasWeight(q)
                  /\ q.question = stored.question
                  /\ q.options = stored.options
                  /\ q.correct_option = stored.correct_option
                  /\ (~Answered(p) /\ HasWeight(stored)) =>
                        q.weight = stored.weight
                  /\ (~Answered(p) /\ ~HasWeight(stored)) => q.weight = 10
        /\ store.kind = "ok"
        /\ (returned \in SavedReturns \/ store # loaded) =>
              \A p \in Positions(store.data) :
                  HasWeight(QuestionAt(store.data, p))

\* loaded from a store with one question without a weight field and one with
\* weight 0.2, and saved since: the store now holds a weight for both
C7_Witness ==
    /\ pc = "menu"
    /\ loaded.kind = "ok"
    /\ \E p \in Positions(loaded.data) : ~HasWeight(QuestionAt(loaded.data, p))
    /\ \E p \in Positions(loaded.data) :
          /\ HasWeight(QuestionAt(loaded.data, p))
          /\ Weight(loaded.data, p) = 2
          /\ ~Answered(p)
          /\ Weight(quiz_data, p) = 2
    /\ returned \in SavedReturns
    /\ \A p \in Positions(store.data) : HasWeight(QuestionAt(store.data, p))

\* C10: the statistics record is empty at process start and stays
\* consistent with the answers given: for every question text, correct is
\* the number of evaluations of questions with that text that returned
\* true and incorrect the number that returned false, so each evaluation
\* adds 1 to exactly one of the two for the text of the answered question;
\* texts never answered have no entry.
C10_StatsMatchHistory ==
    /\ pc = "start" => user_stats = <<>>
    /\ DOMAIN user_stats =
          {QuestionAt(quiz_data, p).question : p \in DOMAIN history}
    /\ \A text \in Texts(quiz_data) :
          LET e == stats_entry(user_stats, text)
          IN  /\ e.correct >= 0
              /\ e.incorrect >= 0
              /\ e.correct = RightOver(DOMAIN history, text, quiz_data)
              /\ e.incorrect = WrongOver(DOMAIN history, text, quiz_data)

\* two questions of different chapters with the same text were answered,
\* one correctly and one not: the entry of the text counts both
C10_Witness ==
    \E p \in DOMAIN history, o \in DOMAIN history :
        /\ p # o
        /\ QuestionAt(quiz_data, p).question = QuestionAt(quiz_data, o).question
        /\ history[p].right > 0
        /\ history[o].wrong > 0
        /\ user_stats[QuestionAt(quiz_data, p).question].correct >= 1
        /\ user_stats[QuestionAt(quiz_data, p).question].incorrect >= 1

(***************************************************************************)
(* Properties of select_question (specification SpecSelect).               *)
(***************************************************************************)
QuestionsOf(name) == quiz_data[ChapterIndex(quiz_data, name)].questions

Total(name) == SumSeq(Weights(QuestionsOf(name)))

\* the cumulative weight of question i: its weight and those before it
Cumulative(name, i) == SumSeq(SubSeq(Weights(QuestionsOf(name)), 1, i))

NonNegative(name) ==
    \A i \in DOMAIN QuestionsOf(name) : QuestionsOf(name)[i].weight >= 0

\* C3: for a chapter of the bank select_question returns None exactly when
\* the chapter is disabled or its list is empty; otherwise, whatever the
\* weights and the draw, it returns a question of the list of the chapter.
C3_SelectReturnsQuestion ==
    selected # NoSelect =>
        /\ (selected.result = 0) <=>
              (selected.name \in selected.disabled
               \/ QuestionsOf(selected.name) = <<>>)
        /\ selected.result # 0 =>
              selected.result \in DOMAIN QuestionsOf(selected.name)

\* the walk found no question with cumulative weight >= r, and the last
\* question of the list was returned
C3_Witness ==
    /\ selected # NoSelect
    /\ selected.name \notin selected.disabled
    /\ Total(selected.name) # 0
    /\ Len(QuestionsOf(selected.name)) >= 2
    /\ \A i \in DOMAIN QuestionsOf(selected.name) :
          selected.r > Grid * Cumulative(selected.name, i)
    /\ selected.result = Len(QuestionsOf(selected.name))

Positive(name) ==
    {i \in DOMAIN QuestionsOf(name) : QuestionsOf(name)[i].weight > 0}

Enabled(name) == name \notin disabled_chapters

\* C4 as claimed: for an enabled chapter with no negative weight and a total
\* weight > 0, the questions select_question can return over all draws are
\* exactly the questions of weight > 0; with total weight 0 every question
\* of the list can be returned.
C4_Original ==
    /\ (/\ selected # NoSelect
        /\ selected.result # 0
        /\ NonNegative(selected.name)
        /\ Total(selected.name) > 0) =>
            QuestionsOf(selected.name)[selected.result].weight > 0
    /\ \A name \in ChapterNames(quiz_data) :
          (Enabled(name) /\ NonNegative(name) /\ QuestionsOf(name) # <<>>) =>
              (IF Total(name) > 0 THEN Positive(name)
               ELSE DOMAIN QuestionsOf(name))
                  \subseteq Selectable(quiz_data, disabled_chapters, name)

\* C4 as amended: for an enabled chapter with no negative weight and a total
\* weight > 0, the questions select_question can return over all draws are
\* the questions of weight > 0 and the first question of the list; a
\* question of weight 0 is returned only when it is the first of the list
\* and the draw is exactly 0; with total weight 0 every question of the
\* list can be returned.
C4_SelectSupport ==
    /\ \A name \in ChapterNames(quiz_data) :
          (Enabled(name) /\ NonNegative(name) /\ QuestionsOf(name) # <<>>) =>
              Selectable(quiz_data, disabled_chapters, name) =
                  (IF Total(name) > 0 THEN Positive(name) \cup {1}
                   ELSE DOMAIN QuestionsOf(name))
    /\ (/\ selected # NoSelect
        /\ selected.result # 0
        /\ NonNegative(selected.name)
        /\ Total(selected.name) > 0
        /\ QuestionsOf(selected.name)[selected.result].weight = 0) =>
            (selected.result = 1 /\ selected.r = 0)

\* the first question of an enabled chapter has weight 0, a later one a
\* positive weight, and the draw 0 returned the first
C4_Witness ==
    /\ selected # NoSelect
    /\ selected.name \notin selected.disabled
    /\ NonNegative(selected.name)
    /\ Total(selected.name) > 0
    /\ QuestionsOf(selected.name)[1].weight = 0
    /\ selected.r = 0
    /\ selected.result = 1

\* the questions of a chapter whose cumulative weight is >= the draw r
Reached(name, r) ==
    {i \in DOMAIN QuestionsOf(name) : r <= Grid * Cumulative(name, i)}

\* C9: for an enabled, non-empty chapter with total weight > 0 and a draw
\* r in [0, total), select_question returns the first question in list
\* order whose cumulative weight is >= r; it returns the last question of
\* the list only when it is that question or no question has a cumulative
\* weight >= r.
C9_FirstCumulativeAtLeastR ==
    (/\ selected # NoSelect
     /\ selected.name \notin selected.disabled
     /\ QuestionsOf(selected.name) # <<>>
     /\ Total(selected.name) > 0) =>
        /\ 0 <= selected.r
        /\ selected.r < Grid * Total(selected.name)
        /\ IF Reached(selected.name, selected.r) # {}
           THEN /\ selected.result \in Reached(selected.name, selected.r)
                /\ \A i \in Reached(selected.name, selected.r) :
                      selected.result <= i
           ELSE selected.result = Len(QuestionsOf(selected.name))

\* the draw equals the cumulative weight of the second question and exceeds
\* that of the first, which has a positive weight: the second is returned
C9_Witness ==
    /\ selected # NoSelect
    /\ selected.name \notin selected.disabled
    /\ Len(QuestionsOf(selected.name)) >= 3
    /\ NonNegative(selected.name)
    /\ QuestionsOf(selected.name)[1].weight > 0
    /\ selected.r = Grid * Cumulative(selected.name, 2)
    /\ selected.r > Grid * Cumulative(selected.name, 1)
    /\ selected.result = 2

(***************************************************************************)
(* Properties of the merge script (specification SpecMerge).               *)
(***************************************************************************)
Names(d) == {d[i].name : i \in DOMAIN d}

ListOf(d, name) == IF HasKey(d, name) THEN d[KeyIndex(d, name)].questions ELSE <<>>

\* C8: the merge script writes a bank whose chapters are the union of the
\* chapters of the two files; a chapter of both holds the questions of the
\* first file followed by those of the second, in their order, a chapter of
\* one file holds the list of that file; the chapters are written in
\* lexicographic order of their names.
C8_MergeUnionSorted ==
    merge.pc = "done" =>
        /\ Names(merge.output) = Names(merge.file1) \cup Names(merge.file2)
        /\ Len(merge.output) = Cardinality(Names(merge.output))
        /\ \A i \in DOMAIN merge.output :
              merge.output[i].questions =
                  ListOf(merge.file1, merge.output[i].name)
                  \o ListOf(merge.file2, merge.output[i].name)
        /\ \A i \in DOMAIN merge.output : \A j \in DOMAIN merge.output :
              i < j => LexLess(merge.output[i].name, merge.output[j].name)

\* the first file holds one chapter, the second file that chapter and,
\* before it, one that sorts after it: the output holds the shared chapter
\* with the questions of both, then the other one
C8_Witness ==
    /\ merge.pc = "done"
    /\ Len(merge.file1) = 1
    /\ Len(merge.file2) = 2
    /\ merge.file2[2].name = merge.file1[1].name
    /\ LexLess(merge.file1[1].name, merge.file2[1].name)
    /\ Len(merge.output) = 2
    /\ merge.output[1].questions = <<"a1", "a2", "b2", "b3">>
    /\ merge.output[2].questions = <<"b1">>

====
